---- MODULE Spec2Model ----
(***************************************************************************)
(* CauldronWatch: drain detection, fill-rate estimation, true-volume       *)
(* reconciliation and ticket matching.                                     *)
(*                                                                         *)
(* Numbers.  Levels are integers counted in level ticks of 1/LevelScale    *)
(* unit, timestamps are integer minutes.  Rates and volumes are exact      *)
(* rationals [n, d] in ticks (per minute), kept in lowest terms with       *)
(* d > 0; the record with d = 0 is the float NaN.                          *)
(***************************************************************************)
EXTENDS Integers, Sequences, FiniteSets, TLC

VARIABLES
    \* RateCalculator.calculate_true_drain_volume, called on its own
    tdv_args, tdv_result,
    \* CauldronAnalyzer.analyze_cauldron
    segs, historical_data, drain_detector, original, pc, fill_rate, drains,
    passes, stats,
    \* ticket_matcher.match_tickets_to_drains
    tickets, mdrains, used, matches, unmatched_drains, runs,
    \* reconcile_service.reconcile_from_live
    ticket_dtos, drain_dtos, rec_result,
    \* analyze_cauldron calls in flight on one analyzer, one per thread
    threads

tdv_vars == <<tdv_args, tdv_result>>
an_vars == <<segs, historical_data, drain_detector, original, pc, fill_rate,
             drains, passes, stats>>
mt_vars == <<tickets, mdrains, used, matches, unmatched_drains, runs>>
rc_vars == <<ticket_dtos, drain_dtos, rec_result>>
par_vars == <<threads>>
vars == <<tdv_args, tdv_result, segs, historical_data, drain_detector,
          original, pc, fill_rate, drains, passes, stats, tickets, mdrains,
          used, matches, unmatched_drains, runs, ticket_dtos, drain_dtos,
          rec_result, threads>>

-----------------------------------------------------------------------------
(* Exact rational arithmetic standing for the program's floats.            *)

LevelScale == 2

Abs(x) == IF x < 0 THEN -x ELSE x

RECURSIVE GCD(_, _)
GCD(a, b) == IF b = 0 THEN a ELSE GCD(b, a % b)

NaN == [n |-> 0, d |-> 0]

IsNaN(r) == r.d = 0

Rat(n, d) ==
    IF d = 0 THEN NaN
    ELSE LET g == GCD(Abs(n), Abs(d))
             s == IF d < 0 THEN -1 ELSE 1
         IN  [n |-> (s * n) \div g, d |-> (s * d) \div g]

IntRat(i) == [n |-> i, d |-> 1]

RatAdd(a, b) ==
    IF IsNaN(a) \/ IsNaN(b) THEN NaN
    ELSE Rat(a.n * b.d + b.n * a.d, a.d * b.d)

RatMul(a, b) ==
    IF IsNaN(a) \/ IsNaN(b) THEN NaN ELSE Rat(a.n * b.n, a.d * b.d)

RatDiv(a, b) ==
    IF IsNaN(a) \/ IsNaN(b) \/ b.n = 0 THEN NaN
    ELSE Rat(a.n * b.d, a.d * b.n)

\* float comparisons: every comparison with NaN is False
RatLt(a, b) == ~IsNaN(a) /\ ~IsNaN(b) /\ a.n * b.d < b.n * a.d
RatLe(a, b) == ~IsNaN(a) /\ ~IsNaN(b) /\ a.n * b.d <= b.n * a.d
RatGt(a, b) == RatLt(b, a)
RatGe(a, b) == RatLe(b, a)

\* Python's max(0, x): x replaces 0 only when x > 0 is True
Max0(x) == IF RatGt(x, IntRat(0)) THEN x ELSE IntRat(0)

-----------------------------------------------------------------------------
(* RateCalculator.calculate_true_drain_volume                              *)

calculate_true_drain_volume_clamped(start_level, end_level, duration_minutes, fr) ==
    LET level_drop == start_level - end_level
        potion_added_during_drain == RatMul(Max0(fr), IntRat(duration_minutes))
    IN  RatAdd(IntRat(level_drop), potion_added_during_drain)

calculate_true_drain_volume(start_level, end_level, duration_minutes, fr) ==
    LET level_drop == start_level - end_level
        potion_added_during_drain == RatMul(fr, IntRat(duration_minutes))
    IN  RatAdd(IntRat(level_drop), potion_added_during_drain)

MaxTdvLevel == 3
MaxTdvDuration == 2
MaxTdvRate == 2

TdvRates == {Rat(n, d) : n \in -MaxTdvRate..MaxTdvRate, d \in 1..2}

NoCall == [called |-> FALSE]

TdvInit ==
    /\ tdv_args = NoCall
    /\ tdv_result = NaN

TrueDrainVolumeCall ==
    \E s \in 0..MaxTdvLevel, e \in 0..MaxTdvLevel,
       dur \in 0..MaxTdvDuration, fr \in TdvRates :
        /\ tdv_args' = [called |-> TRUE, start_level |-> s, end_level |-> e,
                        duration_minutes |-> dur, fill_rate |-> fr]
        /\ tdv_result' = calculate_true_drain_volume(s, e, dur, fr)
        /\ UNCHANGED <<an_vars, mt_vars, rc_vars, par_vars>>

-----------------------------------------------------------------------------
(* pandas helpers over a frame: a sequence of rows                         *)
(* [timestamp, level, isna]; isna marks a missing (NaN) level.             *)

\* x units, as ticks
Units(n, d) == Rat(n * LevelScale, d)

RECURSIVE InsertByTimestamp(_, _)
InsertByTimestamp(sorted, row) ==
    IF sorted = <<>> THEN <<row>>
    ELSE IF sorted[Len(sorted)].timestamp <= row.timestamp
         THEN Append(sorted, row)
         ELSE Append(InsertByTimestamp(SubSeq(sorted, 1, Len(sorted) - 1), row),
                     sorted[Len(sorted)])

RECURSIVE SortByTimestamp(_)
SortByTimestamp(df) ==
    IF df = <<>> THEN <<>>
    ELSE InsertByTimestamp(SortByTimestamp(SubSeq(df, 1, Len(df) - 1)),
                           df[Len(df)])

DropDuplicateTimestamps_keep_all(df) == df

RECURSIVE DropDuplicateTimestamps(_)
DropDuplicateTimestamps(df) ==
    IF df = <<>> THEN <<>>
    ELSE LET head == DropDuplicateTimestamps(SubSeq(df, 1, Len(df) - 1))
             last == df[Len(df)]
         IN  IF \E i \in 1..Len(head) : head[i].timestamp = last.timestamp
             THEN head ELSE Append(head, last)

\* df['level'].diff() at row i
LevelDiff(df, i) ==
    IF i = 1 \/ df[i].isna \/ df[i - 1].isna THEN NaN
    ELSE IntRat(df[i].level - df[i - 1].level)

\* df['timestamp'].diff() in minutes at row i (i > 1)
TimeDiff(df, i) == df[i].timestamp - df[i - 1].timestamp

\* level.diff() / minutes.diff().replace(0, nan)
RowRate(df, i) ==
    IF i = 1 \/ df[i].isna \/ df[i - 1].isna THEN NaN
    ELSE Rat(df[i].level - df[i - 1].level, TimeDiff(df, i))

RECURSIVE InsertRat(_, _)
InsertRat(sorted, r) ==
    IF sorted = <<>> THEN <<r>>
    ELSE IF RatLe(sorted[Len(sorted)], r) THEN Append(sorted, r)
         ELSE Append(InsertRat(SubSeq(sorted, 1, Len(sorted) - 1), r),
                     sorted[Len(sorted)])

RECURSIVE SortRat(_)
SortRat(rs) ==
    IF rs = <<>> THEN <<>>
    ELSE InsertRat(SortRat(SubSeq(rs, 1, Len(rs) - 1)), rs[Len(rs)])

DropNaN(rs) == SelectSeq(rs, LAMBDA r : ~IsNaN(r))

\* Series.median(): NaN entries are skipped, an empty series gives NaN
Median(rs) ==
    LET v == SortRat(DropNaN(rs))
        k == Len(v)
    IN  IF k = 0 THEN NaN
        ELSE IF k % 2 = 1 THEN v[(k + 1) \div 2]
        ELSE RatDiv(RatAdd(v[k \div 2], v[k \div 2 + 1]), IntRat(2))

RECURSIVE SumInt(_, _)
SumInt(f, k) == IF k = 0 THEN 0 ELSE f[k] + SumInt(f, k - 1)

-----------------------------------------------------------------------------
(* RateCalculator.calculate_fill_rate                                      *)

tolerance == Units(1, 10)
MaxFillingRate == Units(10, 1)
MinFillingSamples == 10

\* scipy.stats.linregress raises ValueError when all x values are identical
linregress_raises(valid) ==
    \A i \in 1..Len(valid) : valid[i].timestamp = valid[1].timestamp

\* least-squares slope of level against minutes, in centred form
linregress_slope(valid) ==
    LET n == Len(valid)
        sx == SumInt([i \in 1..n |-> valid[i].timestamp], n)
        sy == SumInt([i \in 1..n |-> valid[i].level], n)
        sxy == SumInt([i \in 1..n |-> (n * valid[i].timestamp - sx)
                                       * (n * valid[i].level - sy)], n)
        sxx == SumInt([i \in 1..n |-> (n * valid[i].timestamp - sx)
                                       * (n * valid[i].timestamp - sx)], n)
    IN  Rat(sxy, sxx)

\* the except branch: df[df['level'].diff() > 0]['level'].diff() is the diff
\* of the selected rows' levels, taken between successive selected rows
fill_rate_fallback(df) ==
    LET n == Len(df)
        sel == SelectSeq([i \in 1..n |-> i],
                         LAMBDA i : RatGt(LevelDiff(df, i), IntRat(0)))
        positive_diffs == [k \in 1..Len(sel) |->
                              IF k = 1 THEN NaN
                              ELSE IntRat(df[sel[k]].level - df[sel[k - 1]].level)]
        minute_diffs == [i \in 1..n |->
                            IF i = 1 THEN NaN ELSE IntRat(TimeDiff(df, i))]
    IN  IF Len(positive_diffs) > 0
        THEN IF RatGt(Median(minute_diffs), IntRat(0))
             THEN RatDiv(Median(positive_diffs), Median(minute_diffs))
             ELSE IntRat(0)
        ELSE IntRat(0)

regression_result_unclamped(slope) == slope

regression_result(slope) == Max0(slope)

calculate_fill_rate(frame) ==
    IF Len(frame) < 2 THEN IntRat(0)
    ELSE LET df == SortByTimestamp(frame)
             n == Len(df)
             rate == [i \in 1..n |-> RowRate(df, i)]
             filling_rates == SelectSeq(rate,
                                 LAMBDA r : /\ RatGt(r, tolerance)
                                            /\ RatLt(r, MaxFillingRate)
                                            /\ ~IsNaN(r))
         IN  IF Len(filling_rates) < MinFillingSamples
             THEN LET valid_data == SelectSeq(df, LAMBDA row : ~row.isna)
                  IN  IF Len(valid_data) < 2 THEN IntRat(0)
                      ELSE IF linregress_raises(valid_data)
                           THEN fill_rate_fallback(df)
                           ELSE regression_result(linregress_slope(valid_data))
             ELSE LET median_rate == Median(filling_rates)
                  IN  IF ~IsNaN(median_rate) THEN Max0(median_rate)
                      ELSE IntRat(0)

-----------------------------------------------------------------------------
(* drain_detector.DrainEvent and DrainDetector                             *)

\* the Python None of a field not yet set
None == [n |-> 0, d |-> 0, none |-> TRUE]

DrainEvent(start_row, end_row, cauldron_id) ==
    [start_time |-> start_row.timestamp,
     end_time |-> end_row.timestamp,
     start_level |-> start_row.level,
     end_level |-> end_row.level,
     cauldron_id |-> cauldron_id,
     duration_minutes |-> end_row.timestamp - start_row.timestamp,
     level_drop |-> start_row.level - end_row.level,
     true_volume |-> None,
     fill_rate |-> None]

DrainDetector(min_drop, max_duration_minutes, detection_method, drain_threshold) ==
    [min_drop |-> min_drop,
     max_duration_minutes |-> max_duration_minutes,
     detection_method |-> detection_method,
     drain_threshold |-> drain_threshold]

RECURSIVE DrainBoundaries_end_inclusive(_, _, _, _, _)
DrainBoundaries_end_inclusive(is_draining, idx, in_drain, drain_start_idx, acc) ==
    IF idx > Len(is_draining)
    THEN IF in_drain
         THEN Append(acc, <<drain_start_idx, Len(is_draining)>>)
         ELSE acc
    ELSE IF is_draining[idx] /\ ~in_drain
         THEN DrainBoundaries_end_inclusive(is_draining, idx + 1, TRUE, idx, acc)
    ELSE IF ~is_draining[idx] /\ in_drain
         THEN DrainBoundaries_end_inclusive(is_draining, idx + 1, FALSE, drain_start_idx,
                              IF idx >= drain_start_idx
                              THEN Append(acc, <<drain_start_idx, idx>>)
                              ELSE acc)
    ELSE DrainBoundaries_end_inclusive(is_draining, idx + 1, in_drain, drain_start_idx, acc)

RECURSIVE DrainBoundaries_start_before(_, _, _, _, _)
DrainBoundaries_start_before(is_draining, idx, in_drain, drain_start_idx, acc) ==
    IF idx > Len(is_draining)
    THEN IF in_drain
         THEN Append(acc, <<drain_start_idx, Len(is_draining)>>)
         ELSE acc
    ELSE IF is_draining[idx] /\ ~in_drain
         THEN DrainBoundaries_start_before(is_draining, idx + 1, TRUE,
                                          IF idx > 1 THEN idx - 1 ELSE idx, acc)
    ELSE IF ~is_draining[idx] /\ in_drain
         THEN DrainBoundaries_start_before(is_draining, idx + 1, FALSE, drain_start_idx,
                              IF idx - 1 >= drain_start_idx
                              THEN Append(acc, <<drain_start_idx, idx - 1>>)
                              ELSE acc)
    ELSE DrainBoundaries_start_before(is_draining, idx + 1, in_drain, drain_start_idx, acc)

\* the boundary loop of _detect_by_derivative; rows are numbered from 1
RECURSIVE DrainBoundaries(_, _, _, _, _)
DrainBoundaries(is_draining, idx, in_drain, drain_start_idx, acc) ==
    IF idx > Len(is_draining)
    THEN IF in_drain
         THEN Append(acc, <<drain_start_idx, Len(is_draining)>>)
         ELSE acc
    ELSE IF is_draining[idx] /\ ~in_drain
         THEN DrainBoundaries(is_draining, idx + 1, TRUE, idx, acc)
    ELSE IF ~is_draining[idx] /\ in_drain
         THEN DrainBoundaries(is_draining, idx + 1, FALSE, drain_start_idx,
                              IF idx - 1 >= drain_start_idx
                              THEN Append(acc, <<drain_start_idx, idx - 1>>)
                              ELSE acc)
    ELSE DrainBoundaries(is_draining, idx + 1, in_drain, drain_start_idx, acc)

RECURSIVE BoundariesToEvents_strict_drop(_, _, _, _)
BoundariesToEvents_strict_drop(self, df, bounds, cauldron_id) ==
    IF bounds = <<>> THEN <<>>
    ELSE LET rest == BoundariesToEvents_strict_drop(self, df, Tail(bounds), cauldron_id)
             start_row == df[bounds[1][1]]
             end_row == df[bounds[1][2]]
             level_drop == start_row.level - end_row.level
             duration == end_row.timestamp - start_row.timestamp
         IN  IF /\ ~start_row.isna /\ ~end_row.isna
                /\ RatGt(IntRat(level_drop), self.min_drop)
                /\ 0 < duration /\ duration <= self.max_duration_minutes
             THEN <<DrainEvent(start_row, end_row, cauldron_id)>> \o rest
             ELSE rest

RECURSIVE BoundariesToEvents(_, _, _, _)
BoundariesToEvents(self, df, bounds, cauldron_id) ==
    IF bounds = <<>> THEN <<>>
    ELSE LET rest == BoundariesToEvents(self, df, Tail(bounds), cauldron_id)
             start_row == df[bounds[1][1]]
             end_row == df[bounds[1][2]]
             level_drop == start_row.level - end_row.level
             duration == end_row.timestamp - start_row.timestamp
         IN  IF /\ ~start_row.isna /\ ~end_row.isna
                /\ RatGe(IntRat(level_drop), self.min_drop)
                /\ 0 < duration /\ duration <= self.max_duration_minutes
             THEN <<DrainEvent(start_row, end_row, cauldron_id)>> \o rest
             ELSE rest

detect_by_derivative(self, df, cauldron_id) ==
    IF Len(df) < 2 THEN <<>>
    ELSE LET is_draining == [i \in 1..Len(df) |->
                                RatLt(RowRate(df, i), self.drain_threshold)]
             bounds == DrainBoundaries(is_draining, 1, FALSE, 0, <<>>)
         IN  BoundariesToEvents(self, df, bounds, cauldron_id)

window_size == 15
MinWindowSpan == 1
MaxWindowSpan == 60

\* the window loop of _detect_by_threshold; "i += window_size - 1" rebinds
\* the loop variable, which range() overwrites on the next iteration
RECURSIVE ThresholdScan(_, _, _, _, _)
ThresholdScan(self, df, i, processed_ranges, cauldron_id) ==
    IF i > Len(df) - window_size THEN <<>>
    ELSE LET first == df[i]
             last == df[i + window_size - 1]
             time_span == last.timestamp - first.timestamp
             level_drop == first.level - last.level
             range_key == <<first.timestamp, last.timestamp>>
         IN  IF time_span < MinWindowSpan \/ time_span > MaxWindowSpan
             THEN ThresholdScan(self, df, i + 1, processed_ranges, cauldron_id)
             ELSE IF /\ ~first.isna /\ ~last.isna
                     /\ RatGe(IntRat(level_drop), self.min_drop)
                  THEN IF range_key \in processed_ranges
                       THEN ThresholdScan(self, df, i + 1, processed_ranges,
                                          cauldron_id)
                       ELSE <<DrainEvent(first, last, cauldron_id)>>
                            \o ThresholdScan(self, df, i + 1,
                                             processed_ranges \cup {range_key},
                                             cauldron_id)
                  ELSE ThresholdScan(self, df, i + 1, processed_ranges,
                                     cauldron_id)

detect_by_threshold(self, df, cauldron_id) ==
    ThresholdScan(self, df, 1, {}, cauldron_id)

detect_drains(self, frame, cauldron_id) ==
    IF Len(frame) < 2 THEN <<>>
    ELSE LET df == DropDuplicateTimestamps(SortByTimestamp(frame))
         IN  IF self.detection_method = "derivative"
             THEN detect_by_derivative(self, df, cauldron_id)
             ELSE detect_by_threshold(self, df, cauldron_id)

-----------------------------------------------------------------------------
(* Reading series.  A series is laid out as a few segments; a segment is   *)
(* a run of steps [dt, dl, isna]: the next reading comes dt minutes after  *)
(* the previous one with its level changed by dl ticks, or with no level.  *)

BaseLevel == 200 * LevelScale

Step(dt, dl) == [dt |-> dt, dl |-> dl, isna |-> FALSE]
NaStep(dt) == [dt |-> dt, dl |-> 0, isna |-> TRUE]
Repeat(step, k) == [i \in 1..k |-> step]

SegmentNames == {"fill10", "drain10", "steep3", "drop1", "slow2", "rise1",
                 "dupzigzag", "nan5", "late1"}

Segment(name) ==
    CASE name = "fill10" -> Repeat(Step(1, 1), 10)        \* +0.5 per minute
      [] name = "drain10" -> Repeat(Step(1, -9), 10)      \* -4.5 per minute
      [] name = "steep3" -> Repeat(Step(1, -20), 3)       \* -10 per minute
      [] name = "drop1" -> Repeat(Step(1, -24), 1)        \* one drop of 12
      [] name = "slow2" -> Repeat(Step(2, -6), 2)         \* -1.5 per minute
      [] name = "rise1" -> Repeat(Step(1, 1), 1)
      [] name = "dupzigzag" -> <<Step(0, 2), Step(0, -10), Step(0, 2)>>
      [] name = "nan5" -> Repeat(NaStep(1), 5)
      [] name = "late1" -> Repeat(Step(-1, 3), 1)         \* out of order

RECURSIVE Flatten(_)
Flatten(names) ==
    IF names = <<>> THEN <<>> ELSE Segment(names[1]) \o Flatten(Tail(names))

\* the first reading is taken at minute 0
RECURSIVE BuildRows(_, _, _, _)
BuildRows(steps, k, t, level) ==
    IF k > Len(steps) THEN <<>>
    ELSE LET st == steps[k]
             nt == IF k = 1 THEN 0 ELSE t + st.dt
             nl == level + st.dl
         IN  <<[timestamp |-> nt,
                level |-> IF st.isna THEN 0 ELSE nl,
                isna |-> st.isna]>>
             \o BuildRows(steps, k + 1, nt, nl)

Readings(names) == BuildRows(Flatten(names), 1, 0, BaseLevel)

MaxSegs == 3

-----------------------------------------------------------------------------
(* CauldronAnalyzer                                                        *)

CauldronIds == {"cauldron_001"}

\* CauldronAnalyzer(), the test analyzer, a window-mode analyzer, and an
\* analyzer whose min_drop and max_duration_minutes pass the relaxed floors
AnalyzerConfigs ==
    {DrainDetector(Units(5, 1), 120, "derivative", Units(-8, 1)),
     DrainDetector(Units(10, 1), 30, "derivative", Units(-2, 1)),
     DrainDetector(Units(5, 1), 120, "threshold", Units(-8, 1)),
     DrainDetector(Units(3, 1), 200, "derivative", Units(-2, 1))}

RelaxedMinDropFloor == Units(2, 1)
RelaxedMaxDurationFloor == 180
RelaxedDrainThreshold == Units(-3, 10)

RatMax(a, b) == IF RatGt(b, a) THEN b ELSE a
IntMax(a, b) == IF b > a THEN b ELSE a

relaxed_detector_no_floor(orig) ==
    DrainDetector(RatDiv(orig.min_drop, IntRat(2)),
                  orig.max_duration_minutes,
                  "derivative",
                  RelaxedDrainThreshold)

relaxed_detector(orig) ==
    DrainDetector(RatMax(RelaxedMinDropFloor, RatDiv(orig.min_drop, IntRat(2))),
                  IntMax(RelaxedMaxDurationFloor, orig.max_duration_minutes),
                  "derivative",
                  RelaxedDrainThreshold)

Returned(value) == [outcome |-> "returned", value |-> value]
Raised(e) == [outcome |-> "raised", exception |-> e]

zero_result(cauldron_id, error) ==
    [cauldron_id |-> cauldron_id,
     error |-> error,
     fill_rate |-> IntRat(0),
     num_drains |-> 0,
     total_volume_drained |-> IntRat(0),
     avg_drain_volume |-> IntRat(0),
     drain_events |-> <<>>]

analyze_except_reraise(cauldron_id, e) == Raised(e)

\* except Exception as e: return the zero-value result
analyze_except(cauldron_id, e) ==
    Returned(zero_result(cauldron_id, <<"Error analyzing", cauldron_id, e>>))

RECURSIVE SumVolumes(_)
SumVolumes(ds) ==
    IF ds = <<>> THEN IntRat(0)
    ELSE IF "none" \in DOMAIN ds[1].true_volume THEN SumVolumes(Tail(ds))
    ELSE RatAdd(ds[1].true_volume, SumVolumes(Tail(ds)))

compile_statistics(cauldron_id, fr, ds) ==
    LET total_volume == SumVolumes(ds)
        avg_volume == IF Len(ds) > 0
                      THEN RatDiv(total_volume, IntRat(Len(ds)))
                      ELSE IntRat(0)
    IN  [cauldron_id |-> cauldron_id,
         fill_rate |-> fr,
         num_drains |-> Len(ds),
         total_volume_drained |-> total_volume,
         avg_drain_volume |-> avg_volume,
         drain_events |-> ds]

NoData == [is_none |-> TRUE, columns |-> {}, rows |-> <<>>,
           cauldron_id |-> "cauldron_001"]
NoStats == [outcome |-> "pending"]

AnInit ==
    /\ segs = <<>>
    /\ historical_data = NoData
    /\ drain_detector \in AnalyzerConfigs
    /\ original = drain_detector
    /\ pc = "idle"
    /\ fill_rate = IntRat(0)
    /\ drains = <<>>
    /\ passes = <<>>
    /\ stats = NoStats

\* the caller lays out the reading series
AppendSegment ==
    /\ pc = "idle"
    /\ Len(segs) < MaxSegs
    /\ \E name \in SegmentNames : segs' = Append(segs, name)
    /\ UNCHANGED <<historical_data, drain_detector, original, pc, fill_rate,
                   drains, passes, stats, tdv_vars, mt_vars, rc_vars, par_vars>>

\* analyze_cauldron(historical_data, cauldron_id) is entered
AnalyzeCall ==
    /\ pc = "idle"
    /\ \E cid \in CauldronIds :
        \/ /\ segs = <<>>
           /\ historical_data' = [is_none |-> TRUE, columns |-> {},
                                  rows |-> <<>>, cauldron_id |-> cid]
        \/ \E cols \in {{"timestamp", "level"}, {"timestamp"}, {"level"}} :
              historical_data' = [is_none |-> FALSE, columns |-> cols,
                                  rows |-> Readings(segs), cauldron_id |-> cid]
    /\ pc' = "validate"
    /\ passes' = <<>>
    /\ stats' = NoStats
    /\ UNCHANGED <<segs, drain_detector, original, fill_rate, drains,
                   tdv_vars, mt_vars, rc_vars, par_vars>>

\* the input checks at the head of the try block
Validate ==
    /\ pc = "validate"
    /\ LET cid == historical_data.cauldron_id IN
       IF historical_data.is_none \/ Len(historical_data.rows) = 0
       THEN /\ stats' = Returned(zero_result(cid, "No data provided"))
            /\ pc' = "done"
       ELSE IF "timestamp" \notin historical_data.columns
       THEN /\ stats' = analyze_except(cid,
                            "DataFrame must have 'timestamp' column")
            /\ pc' = "done"
       ELSE IF "level" \notin historical_data.columns
       THEN /\ stats' = analyze_except(cid,
                            "DataFrame must have 'level' column")
            /\ pc' = "done"
       ELSE /\ stats' = stats
            /\ pc' = "fill_rate"
    /\ UNCHANGED <<segs, historical_data, drain_detector, original, fill_rate,
                   drains, passes, tdv_vars, mt_vars, rc_vars, par_vars>>

\* Step 1: fill_rate = self.rate_calc.calculate_fill_rate(historical_data)
CalcFillRate ==
    /\ pc = "fill_rate"
    /\ fill_rate' = calculate_fill_rate(historical_data.rows)
    /\ pc' = "detect"
    /\ UNCHANGED <<segs, historical_data, drain_detector, original, drains,
                   passes, stats, tdv_vars, mt_vars, rc_vars, par_vars>>

\* Step 2: drains = self.drain_detector.detect_drains(...)
DetectConfigured ==
    /\ pc = "detect"
    /\ drains' = detect_drains(drain_detector, historical_data.rows,
                               historical_data.cauldron_id)
    /\ passes' = Append(passes, [detector |-> drain_detector,
                                 found |-> Len(drains')])
    /\ pc' = IF drains' = <<>> THEN "fallback" ELSE "volumes"
    /\ UNCHANGED <<segs, historical_data, drain_detector, original, fill_rate,
                   stats, tdv_vars, mt_vars, rc_vars, par_vars>>

\* original = self.drain_detector; self.drain_detector = DrainDetector(...)
FallbackSwap ==
    /\ pc = "fallback"
    /\ original' = drain_detector
    /\ drain_detector' = relaxed_detector(drain_detector)
    /\ pc' = "relaxed"
    /\ UNCHANGED <<segs, historical_data, fill_rate, drains, passes, stats,
                   tdv_vars, mt_vars, rc_vars, par_vars>>

\* drains = self.drain_detector.detect_drains(...), second pass
DetectRelaxed ==
    /\ pc = "relaxed"
    /\ drains' = detect_drains(drain_detector, historical_data.rows,
                               historical_data.cauldron_id)
    /\ passes' = Append(passes, [detector |-> drain_detector,
                                 found |-> Len(drains')])
    /\ pc' = "restore"
    /\ UNCHANGED <<segs, historical_data, drain_detector, original, fill_rate,
                   stats, tdv_vars, mt_vars, rc_vars, par_vars>>

RestoreDetector_skipped ==
    /\ pc = "restore"
    /\ pc' = "volumes"
    /\ UNCHANGED <<segs, historical_data, drain_detector, original, fill_rate,
                   drains, passes, stats, tdv_vars, mt_vars, rc_vars, par_vars>>

\* finally: self.drain_detector = original
RestoreDetector ==
    /\ pc = "restore"
    /\ drain_detector' = original
    /\ pc' = "volumes"
    /\ UNCHANGED <<segs, historical_data, original, fill_rate, drains, passes,
                   stats, tdv_vars, mt_vars, rc_vars, par_vars>>

\* Steps 3 and 4: true volumes, statistics, return
ComputeVolumes ==
    /\ pc = "volumes"
    /\ drains' = [i \in 1..Len(drains) |->
                    [drains[i] EXCEPT
                       !.true_volume = calculate_true_drain_volume(
                                           drains[i].start_level,
                                           drains[i].end_level,
                                           drains[i].duration_minutes,
                                           fill_rate),
                       !.fill_rate = fill_rate]]
    /\ stats' = Returned(compile_statistics(historical_data.cauldron_id,
                                            fill_rate, drains'))
    /\ pc' = "done"
    /\ UNCHANGED <<segs, historical_data, drain_detector, original, fill_rate,
                   passes, tdv_vars, mt_vars, rc_vars, par_vars>>

\* the caller takes the result; the analyzer is free for the next call
AnalyzeReturn ==
    /\ pc = "done"
    /\ pc' = "idle"
    /\ segs' = <<>>
    /\ historical_data' = NoData
    /\ fill_rate' = IntRat(0)
    /\ drains' = <<>>
    /\ passes' = <<>>
    /\ stats' = NoStats
    /\ original' = drain_detector
    /\ UNCHANGED <<drain_detector, tdv_vars, mt_vars, rc_vars, par_vars>>

-----------------------------------------------------------------------------
(* detection: config, discrepancy, ticket_matcher                          *)
(* Volumes are whole units; ticket ids and cauldron ids are numbers in     *)
(* the order of the program's strings; start_ts is in minutes and a day    *)
(* has MinutesPerDay of them.                                              *)

TOL_PCT == Rat(20, 100)
TOL_ABS == 12
WARN_PCT == Rat(30, 100)

classify(diff, drained_sum, cross_day) ==
    LET base_ok == RatLe(IntRat(Abs(diff)),
                         RatMax(IntRat(TOL_ABS),
                                RatMul(TOL_PCT, IntRat(IntMax(drained_sum, 1)))))
    IN  IF base_ok
        THEN IF cross_day THEN "cross_day_valid" ELSE "valid"
        ELSE IF diff > 0
        THEN IF cross_day THEN "cross_day_suspicious_over"
             ELSE "suspicious_over"
        ELSE IF cross_day THEN "cross_day_suspicious_under"
             ELSE "suspicious_under"

RatMin(a, b) == IF RatLt(b, a) THEN b ELSE a

confidence(diff, denom, bundle_size) ==
    LET pct == Rat(Abs(diff), IntMax(denom, 1))
    IN  RatMax(IntRat(0),
               RatMin(IntRat(1),
                      RatAdd(RatAdd(IntRat(1), RatMul(IntRat(-1), pct)),
                             Rat(-5 * IntMax(0, bundle_size - 1), 100))))

MinutesPerDay == 2

key_day(ts) == ts \div MinutesPerDay

\* sorted(drains, key=(cauldron_id, start_ts)); Python's sort is stable
DrainKeyLe(a, b) ==
    \/ a.cauldron_id < b.cauldron_id
    \/ a.cauldron_id = b.cauldron_id /\ a.start_ts <= b.start_ts

\* sorted(tickets, key=(cauldron_id, date, ticket_id))
TicketKeyLe(a, b) ==
    \/ a.cauldron_id < b.cauldron_id
    \/ a.cauldron_id = b.cauldron_id /\ a.date < b.date
    \/ a.cauldron_id = b.cauldron_id /\ a.date = b.date
       /\ a.ticket_id <= b.ticket_id

RECURSIVE InsertDrain(_, _)
InsertDrain(sorted, x) ==
    IF sorted = <<>> THEN <<x>>
    ELSE IF DrainKeyLe(sorted[Len(sorted)], x) THEN Append(sorted, x)
         ELSE Append(InsertDrain(SubSeq(sorted, 1, Len(sorted) - 1), x),
                     sorted[Len(sorted)])

SortDrains_input_order(xs) == xs

RECURSIVE SortDrains(_)
SortDrains(xs) ==
    IF xs = <<>> THEN <<>>
    ELSE InsertDrain(SortDrains(SubSeq(xs, 1, Len(xs) - 1)), xs[Len(xs)])

RECURSIVE InsertTicket(_, _)
InsertTicket(sorted, x) ==
    IF sorted = <<>> THEN <<x>>
    ELSE IF TicketKeyLe(sorted[Len(sorted)], x) THEN Append(sorted, x)
         ELSE Append(InsertTicket(SubSeq(sorted, 1, Len(sorted) - 1), x),
                     sorted[Len(sorted)])

RECURSIVE SortTickets(_)
SortTickets(xs) ==
    IF xs = <<>> THEN <<>>
    ELSE InsertTicket(SortTickets(SubSeq(xs, 1, Len(xs) - 1)), xs[Len(xs)])

DayDrains_by_end_day(sorted_drains, cid, day) ==
    SelectSeq(sorted_drains,
              LAMBDA d : d.cauldron_id = cid /\ key_day(d.end_ts) = day)

\* drains_by_key.get(key, [])
DayDrains(sorted_drains, cid, day) ==
    SelectSeq(sorted_drains,
              LAMBDA d : d.cauldron_id = cid /\ key_day(d.start_ts) = day)

is_used_never(drain_event_id, used_set) == FALSE

\* d.drain_event_id in used
is_used(drain_event_id, used_set) == drain_event_id \in used_set

\* "keep the addition only if it improves closeness"
improves_closeness(amount_collected, trial, cur_sum) ==
    Abs(amount_collected - trial) <= Abs(amount_collected - cur_sum)

\* while ptr < len(day_drains) and day_drains[ptr].drain_event_id in used
RECURSIVE AdvancePtr(_, _, _)
AdvancePtr(day_drains, ptr, used_set) ==
    IF ptr <= Len(day_drains)
       /\ is_used(day_drains[ptr].drain_event_id, used_set)
    THEN AdvancePtr(day_drains, ptr + 1, used_set)
    ELSE ptr

RECURSIVE Bundle_no_stop(_, _, _, _, _, _)
Bundle_no_stop(tk, day_drains, j, used_set, cur_ids, cur_sum) ==
    IF j > Len(day_drains)
    THEN [cur_ids |-> cur_ids, cur_sum |-> cur_sum, j |-> j]
    ELSE LET d == day_drains[j]
             trial == cur_sum + d.drained_volume
         IN  IF is_used(d.drain_event_id, used_set)
             THEN Bundle_no_stop(tk, day_drains, j + 1, used_set, cur_ids,
                                 cur_sum)
             ELSE IF improves_closeness(tk.amount_collected, trial, cur_sum)
             THEN Bundle_no_stop(tk, day_drains, j + 1, used_set,
                                 Append(cur_ids, d.drain_event_id), trial)
             ELSE [cur_ids |-> cur_ids, cur_sum |-> cur_sum, j |-> j]

RECURSIVE Bundle_skip_failed(_, _, _, _, _, _)
Bundle_skip_failed(tk, day_drains, j, used_set, cur_ids, cur_sum) ==
    IF j > Len(day_drains)
    THEN [cur_ids |-> cur_ids, cur_sum |-> cur_sum, j |-> j]
    ELSE LET d == day_drains[j]
             trial == cur_sum + d.drained_volume
         IN  IF is_used(d.drain_event_id, used_set)
             THEN Bundle_skip_failed(tk, day_drains, j + 1, used_set, cur_ids,
                                     cur_sum)
             ELSE IF improves_closeness(tk.amount_collected, trial, cur_sum)
             THEN IF trial >= tk.amount_collected
                  THEN [cur_ids |-> Append(cur_ids, d.drain_event_id),
                        cur_sum |-> trial, j |-> j + 1]
                  ELSE Bundle_skip_failed(tk, day_drains, j + 1, used_set,
                                          Append(cur_ids, d.drain_event_id),
                                          trial)
             ELSE Bundle_skip_failed(tk, day_drains, j + 1, used_set, cur_ids,
                                     cur_sum)

\* the inner while loop for one ticket; list positions are numbered from 1
RECURSIVE Bundle(_, _, _, _, _, _)
Bundle(tk, day_drains, j, used_set, cur_ids, cur_sum) ==
    IF j > Len(day_drains)
    THEN [cur_ids |-> cur_ids, cur_sum |-> cur_sum, j |-> j]
    ELSE LET d == day_drains[j]
             trial == cur_sum + d.drained_volume
         IN  IF is_used(d.drain_event_id, used_set)
             THEN Bundle(tk, day_drains, j + 1, used_set, cur_ids, cur_sum)
             ELSE IF improves_closeness(tk.amount_collected, trial, cur_sum)
             THEN IF trial >= tk.amount_collected
                  THEN [cur_ids |-> Append(cur_ids, d.drain_event_id),
                        cur_sum |-> trial, j |-> j + 1]
                  ELSE Bundle(tk, day_drains, j + 1, used_set,
                              Append(cur_ids, d.drain_event_id), trial)
             ELSE [cur_ids |-> cur_ids, cur_sum |-> cur_sum, j |-> j]

Range(f) == {f[i] : i \in DOMAIN f}

match_status_always_classified(cur_ids, diff, cur_sum) ==
    classify(diff, cur_sum, FALSE)

match_status_cross_day(cur_ids, diff, cur_sum) ==
    IF cur_ids # <<>> THEN classify(diff, cur_sum, TRUE) ELSE "unmatched"

\* status = classify(diff, cur_sum, cross_day=False) if cur_ids else "unmatched"
match_status(cur_ids, diff, cur_sum) ==
    IF cur_ids # <<>> THEN classify(diff, cur_sum, FALSE) ELSE "unmatched"

MatchResult_drained_minus_claim(tk, b) ==
    LET diff == b.cur_sum - tk.amount_collected
    IN  [ticket_id |-> tk.ticket_id,
         cauldron_id |-> tk.cauldron_id,
         drain_event_ids |-> b.cur_ids,
         drained_volume |-> b.cur_sum,
         difference |-> diff,
         pct_diff |-> IF b.cur_sum > 0
                      THEN Rat(Abs(diff) * 100, IntMax(b.cur_sum, 1))
                      ELSE IntRat(100),
         status |-> match_status(b.cur_ids, diff, b.cur_sum),
         confidence |-> confidence(diff,
                                   IF b.cur_sum > 0 THEN b.cur_sum
                                   ELSE tk.amount_collected,
                                   IF b.cur_ids # <<>> THEN Len(b.cur_ids)
                                   ELSE 1),
         cross_day |-> FALSE,
         match_date |-> tk.date]

MatchResult(tk, b) ==
    LET diff == tk.amount_collected - b.cur_sum
    IN  [ticket_id |-> tk.ticket_id,
         cauldron_id |-> tk.cauldron_id,
         drain_event_ids |-> b.cur_ids,
         drained_volume |-> b.cur_sum,
         difference |-> diff,
         pct_diff |-> IF b.cur_sum > 0
                      THEN Rat(Abs(diff) * 100, IntMax(b.cur_sum, 1))
                      ELSE IntRat(100),
         status |-> match_status(b.cur_ids, diff, b.cur_sum),
         confidence |-> confidence(diff,
                                   IF b.cur_sum > 0 THEN b.cur_sum
                                   ELSE tk.amount_collected,
                                   IF b.cur_ids # <<>> THEN Len(b.cur_ids)
                                   ELSE 1),
         cross_day |-> FALSE,
         match_date |-> tk.date]

\* the two for loops, over the sorted tickets; ptr starts anew in each group
RECURSIVE MatchLoop(_, _, _, _, _, _)
MatchLoop(sorted_tickets, sorted_drains, k, ptr, used_set, acc) ==
    IF k > Len(sorted_tickets) THEN [matches |-> acc, used |-> used_set]
    ELSE LET tk == sorted_tickets[k]
             new_group == \/ k = 1
                          \/ sorted_tickets[k - 1].cauldron_id # tk.cauldron_id
                          \/ sorted_tickets[k - 1].date # tk.date
             day_drains == DayDrains(sorted_drains, tk.cauldron_id, tk.date)
             ptr1 == AdvancePtr(day_drains, IF new_group THEN 1 ELSE ptr,
                                used_set)
             b == Bundle(tk, day_drains, ptr1, used_set, <<>>, 0)
         IN  MatchLoop(sorted_tickets, sorted_drains, k + 1,
                       IF b.cur_ids # <<>> THEN b.j ELSE ptr1,
                       used_set \cup Range(b.cur_ids),
                       Append(acc, MatchResult(tk, b)))

new_used_shared(previous) == previous

\* used: set = set()
new_used(previous) == {}

unmatched_filter_all(ds, used_set) == ds

\* unmatched = [d for d in drains if d.drain_event_id not in used]
unmatched_filter(ds, used_set) ==
    SelectSeq(ds, LAMBDA d : d.drain_event_id \notin used_set)

match_tickets_to_drains(tks, ds, previous_used) ==
    LET r == MatchLoop(SortTickets(tks), SortDrains(ds),
                       1, 1, new_used(previous_used), <<>>)
    IN  [matches |-> r.matches,
         unmatched_drains |-> unmatched_filter(ds, r.used),
         used |-> r.used]

-----------------------------------------------------------------------------
(* A caller of match_tickets_to_drains: it builds the two lists, runs the  *)
(* matcher, may run it again on the same lists, and starts over.           *)

MaxTickets == 2
MaxDrains == 3
MaxInput == 4
MaxRuns == 2
MaxCauldron == 2
MaxTs == 2
TicketIds == {1, 2}
Amounts == {20, 50}
Volumes == {0, 20, 100}

\* a drain ends DrainLength minutes after it starts
DrainLength == 1

\* the first cauldron has drains at every minute, the others at minute 0
DrainSlots == {sl \in (1..MaxCauldron) \X (0..MaxTs) : sl[1] = 1 \/ sl[2] = 0}
TicketSlots == {<<sl[1], key_day(sl[2])>> : sl \in DrainSlots}

\* drain ids are only ever compared for equality: a new drain carries an id
\* already in the list or the next unused number
DrainIdsFor(ds) == 1..(Cardinality({ds[i].drain_event_id : i \in DOMAIN ds}) + 1)

MtInit ==
    /\ tickets = <<>>
    /\ mdrains = <<>>
    /\ used = {}
    /\ matches = <<>>
    /\ unmatched_drains = <<>>
    /\ runs = 0

AddTicket ==
    /\ runs = 0
    /\ Len(tickets) < MaxTickets
    /\ Len(tickets) + Len(mdrains) < MaxInput
    /\ \E id \in TicketIds, sl \in TicketSlots, amount \in Amounts :
          tickets' = Append(tickets, [ticket_id |-> id, cauldron_id |-> sl[1],
                                      date |-> sl[2],
                                      amount_collected |-> amount])
    /\ UNCHANGED <<mdrains, used, matches, unmatched_drains, runs,
                   tdv_vars, an_vars, rc_vars, par_vars>>

AddDrain ==
    /\ runs = 0
    /\ Len(mdrains) < MaxDrains
    /\ Len(tickets) + Len(mdrains) < MaxInput
    /\ \E id \in DrainIdsFor(mdrains), sl \in DrainSlots, vol \in Volumes :
          mdrains' = Append(mdrains, [drain_event_id |-> id,
                                      cauldron_id |-> sl[1],
                                      start_ts |-> sl[2],
                                      end_ts |-> sl[2] + DrainLength,
                                      drained_volume |-> vol])
    /\ UNCHANGED <<tickets, used, matches, unmatched_drains, runs,
                   tdv_vars, an_vars, rc_vars, par_vars>>

\* one invocation of match_tickets_to_drains(tickets, drains)
MatchRun ==
    /\ runs < MaxRuns
    /\ LET res == match_tickets_to_drains(tickets, mdrains, used)
       IN  /\ matches' = res.matches
           /\ unmatched_drains' = res.unmatched_drains
           /\ used' = res.used
    /\ runs' = runs + 1
    /\ UNCHANGED <<tickets, mdrains, tdv_vars, an_vars, rc_vars, par_vars>>

MatchReset ==
    /\ runs > 0
    /\ tickets' = <<>>
    /\ mdrains' = <<>>
    /\ used' = {}
    /\ matches' = <<>>
    /\ unmatched_drains' = <<>>
    /\ runs' = 0
    /\ UNCHANGED <<tdv_vars, an_vars, rc_vars, par_vars>>

-----------------------------------------------------------------------------
(* reconcile_service.reconcile_from_live                                   *)
(* A ticket's date text is year, separator, month, separator, day; an      *)
(* optional float is <<>> (None) or <<v>>; a drain id is the pair that     *)
(* stands for "{cauldron_id}@{start_time}".                                *)

EpochMonth == 10
EpochDay == 30
DaysInMonth == 31

\* datetime.strptime(s, "%Y-%m-%d").date(): a day number, or ValueError
to_date(s) ==
    IF /\ s.sep = "-"
       /\ s.month \in 1..12
       /\ s.day \in 1..DaysInMonth
    THEN [ok |-> TRUE,
          date |-> (s.month - EpochMonth) * DaysInMonth + (s.day - EpochDay)]
    ELSE [ok |-> FALSE, date |-> 0]

\* match_date.isoformat()
isoformat(date) ==
    [sep |-> "-",
     month |-> EpochMonth + ((date + EpochDay - 1) \div DaysInMonth),
     day |-> ((date + EpochDay - 1) % DaysInMonth) + 1]

mk_drain_id(d) == <<d.cauldron_id, d.start_time>>

\* float(v or 0.0), v the true_volume unless it is None
drain_volume(d) ==
    LET v == IF d.true_volume # <<>> THEN d.true_volume ELSE d.volume_drained
    IN  IF v = <<>> THEN 0 ELSE v[1]

severity_from_strict_warn(status, diff, basis) ==
    IF status \in {"valid", "cross_day_valid"} THEN "info"
    ELSE LET tol == RatMax(IntRat(TOL_ABS),
                           RatMul(TOL_PCT, IntRat(IntMax(basis, 1))))
             pct_off == Rat(Abs(diff), IntMax(basis, 1))
         IN  IF RatLe(IntRat(Abs(diff)), tol) THEN "info"
             ELSE IF RatLt(pct_off, WARN_PCT) THEN "warning"
             ELSE "critical"

severity_from_unmatched_category(status, diff, basis) ==
    IF status \in {"valid", "cross_day_valid"} THEN "info"
    ELSE IF status = "unmatched" THEN "unmatched"
    ELSE LET tol == RatMax(IntRat(TOL_ABS),
                           RatMul(TOL_PCT, IntRat(IntMax(basis, 1))))
             pct_off == Rat(Abs(diff), IntMax(basis, 1))
         IN  IF RatLe(IntRat(Abs(diff)), tol) THEN "info"
             ELSE IF RatLe(pct_off, WARN_PCT) THEN "warning"
             ELSE "critical"

severity_from(status, diff, basis) ==
    IF status \in {"valid", "cross_day_valid"} THEN "info"
    ELSE LET tol == RatMax(IntRat(TOL_ABS),
                           RatMul(TOL_PCT, IntRat(IntMax(basis, 1))))
             pct_off == Rat(Abs(diff), IntMax(basis, 1))
         IN  IF RatLe(IntRat(Abs(diff)), tol) THEN "info"
             ELSE IF RatLe(pct_off, WARN_PCT) THEN "warning"
             ELSE "critical"

\* round(x, 2) of a non-negative x: to the nearest hundredth, ties to even
Round2(x) ==
    LET scaled == x.n * 100
        q == scaled \div x.d
        twice_rem == 2 * (scaled % x.d)
        up == twice_rem > x.d \/ (twice_rem = x.d /\ q % 2 = 1)
    IN  Rat(IF up THEN q + 1 ELSE q, 100)

discrepancy_of_basis_drained(m) ==
    LET ticket_volume == m.drained_volume + m.difference
        basis == IntMax(m.drained_volume, 1)
    IN  [ticket_id |-> m.ticket_id,
         cauldron_id |-> m.cauldron_id,
         date |-> isoformat(m.match_date),
         ticket_volume |-> ticket_volume,
         actual_drained |-> m.drained_volume,
         discrepancy |-> m.difference,
         discrepancy_percent |-> Round2(Rat(Abs(m.difference) * 100, basis)),
         severity |-> severity_from(m.status, m.difference, basis),
         matched_drain_events |-> m.drain_event_ids]

discrepancy_of(m) ==
    LET ticket_volume == m.drained_volume + m.difference
        basis == IntMax(IntMax(ticket_volume, m.drained_volume), 1)
    IN  [ticket_id |-> m.ticket_id,
         cauldron_id |-> m.cauldron_id,
         date |-> isoformat(m.match_date),
         ticket_volume |-> ticket_volume,
         actual_drained |-> m.drained_volume,
         discrepancy |-> m.difference,
         discrepancy_percent |-> Round2(Rat(Abs(m.difference) * 100, basis)),
         severity |-> severity_from(m.status, m.difference, basis),
         matched_drain_events |-> m.drain_event_ids]

CountSeverity_matched_only(ds, sev) ==
    Cardinality({i \in DOMAIN ds : /\ ds[i].severity = sev
                                   /\ ds[i].matched_drain_events # <<>>})

CountSeverity(ds, sev) ==
    Cardinality({i \in DOMAIN ds : ds[i].severity = sev})

reconcile_from_live(tks, ds) ==
    IF \E i \in DOMAIN tks : ~to_date(tks[i].date).ok
    THEN Raised("ValueError")
    ELSE LET m_tickets == [i \in DOMAIN tks |->
                              [ticket_id |-> tks[i].ticket_id,
                               cauldron_id |-> tks[i].cauldron_id,
                               date |-> to_date(tks[i].date).date,
                               amount_collected |-> tks[i].amount_collected]]
             m_drains == [i \in DOMAIN ds |->
                             [drain_event_id |-> mk_drain_id(ds[i]),
                              cauldron_id |-> ds[i].cauldron_id,
                              start_ts |-> ds[i].start_time,
                              drained_volume |-> drain_volume(ds[i])]]
             res == match_tickets_to_drains(m_tickets, m_drains, {})
             discrepancies == [i \in DOMAIN res.matches |->
                                  discrepancy_of(res.matches[i])]
         IN  Returned([discrepancies |-> discrepancies,
                       total_discrepancies |-> Len(discrepancies),
                       critical_count |-> CountSeverity(discrepancies, "critical"),
                       warning_count |-> CountSeverity(discrepancies, "warning"),
                       info_count |-> CountSeverity(discrepancies, "info")])

MaxRcTickets == 2
MaxRcDrains == 2
MaxRcInput == 3

\* claimed amounts: below TOL_ABS, an exact match, and 40, 30, 25 and 15
\* short of a drain of 100
RcAmounts == {10, 20, 60, 70, 75, 85, 125}

DateTexts == {[sep |-> sp, month |-> m, day |-> d] :
                 sp \in {"-", "/"}, m \in {EpochMonth, 13}, d \in {EpochDay}}
             \cup {[sep |-> "-", month |-> EpochMonth, day |-> EpochDay + 1]}

DtoVolumes == {[true_volume |-> <<>>, volume_drained |-> <<>>],
               [true_volume |-> <<>>, volume_drained |-> <<20>>],
               [true_volume |-> <<100>>, volume_drained |-> <<20>>],
               [true_volume |-> <<20>>, volume_drained |-> <<>>]}

RcInit ==
    /\ ticket_dtos = <<>>
    /\ drain_dtos = <<>>
    /\ rec_result = NoStats

AddTicketDto ==
    /\ rec_result = NoStats
    /\ Len(ticket_dtos) < MaxRcTickets
    /\ Len(ticket_dtos) + Len(drain_dtos) < MaxRcInput
    /\ \E cid \in 1..MaxCauldron, text \in DateTexts, amount \in RcAmounts :
          ticket_dtos' = Append(ticket_dtos,
                                [ticket_id |-> Len(ticket_dtos) + 1,
                                 cauldron_id |-> cid,
                                 date |-> text,
                                 amount_collected |-> amount])
    /\ UNCHANGED <<drain_dtos, rec_result, tdv_vars, an_vars, mt_vars,
                 par_vars>>

AddDrainDto ==
    /\ rec_result = NoStats
    /\ Len(drain_dtos) < MaxRcDrains
    /\ Len(ticket_dtos) + Len(drain_dtos) < MaxRcInput
    /\ \E cid \in 1..MaxCauldron, ts \in 0..MaxTs, v \in DtoVolumes :
          drain_dtos' = Append(drain_dtos,
                               [cauldron_id |-> cid,
                                start_time |-> ts,
                                true_volume |-> v.true_volume,
                                volume_drained |-> v.volume_drained])
    /\ UNCHANGED <<ticket_dtos, rec_result, tdv_vars, an_vars, mt_vars,
                 par_vars>>

\* one invocation of reconcile_from_live(tickets, drains)
ReconcileCall ==
    /\ rec_result = NoStats
    /\ rec_result' = reconcile_from_live(ticket_dtos, drain_dtos)
    /\ UNCHANGED <<ticket_dtos, drain_dtos, tdv_vars, an_vars, mt_vars,
                 par_vars>>

ReconcileReset ==
    /\ rec_result # NoStats
    /\ ticket_dtos' = <<>>
    /\ drain_dtos' = <<>>
    /\ rec_result' = NoStats
    /\ UNCHANGED <<tdv_vars, an_vars, mt_vars,
                 par_vars>>

-----------------------------------------------------------------------------
(* analyze_cauldron called from several threads on one CauldronAnalyzer.   *)
(* self.drain_detector is the analyzer's field, shared; the readings,      *)
(* fill_rate, drains and original are locals of each call.  A step is the  *)
(* code between two accesses to the shared field.                          *)

Threads == {1, 2}

ParCauldron(t) == IF t = 1 THEN "cauldron_001" ELSE "cauldron_002"

\* the series the callers analyse: no drain, a slow drain, and a steep
\* drain that goes on slowly
ParSeries == {<<"fill10">>, <<"fill10", "slow2">>, <<"steep3", "slow2">>}

\* CauldronAnalyzer()
DefaultDetector == DrainDetector(Units(5, 1), 120, "derivative", Units(-8, 1))

IdleThread ==
    [pc |-> "idle", segs |-> <<>>, fill_rate |-> IntRat(0), drains |-> <<>>,
     original |-> DefaultDetector, stats |-> NoStats]

ParInit == threads = [t \in Threads |-> IdleThread]

\* Step 3: every drain gets its true volume and the fill rate
with_true_volumes(ds, fr) ==
    [i \in 1..Len(ds) |->
        [ds[i] EXCEPT
           !.true_volume = calculate_true_drain_volume(
                               ds[i].start_level, ds[i].end_level,
                               ds[i].duration_minutes, fr),
           !.fill_rate = fr]]

\* a thread enters analyze_cauldron with its vessel's readings; Step 1
ParCall(t) ==
    /\ threads[t].pc = "idle"
    /\ threads[t].stats = NoStats
    /\ \E series \in ParSeries :
          threads' = [threads EXCEPT
                         ![t] = [@ EXCEPT
                                   !.pc = "detect",
                                   !.segs = series,
                                   !.fill_rate =
                                       calculate_fill_rate(Readings(series))]]
    /\ UNCHANGED <<tdv_vars, an_vars, mt_vars, rc_vars>>

\* Step 2: drains = self.drain_detector.detect_drains(...)
ParDetect(t) ==
    /\ threads[t].pc = "detect"
    /\ LET found == detect_drains(drain_detector, Readings(threads[t].segs),
                                  ParCauldron(t))
       IN  threads' = [threads EXCEPT
                          ![t] = [@ EXCEPT
                                    !.drains = found,
                                    !.pc = IF found = <<>> THEN "fallback"
                                           ELSE "volumes"]]
    /\ UNCHANGED <<tdv_vars, an_vars, mt_vars, rc_vars>>

\* original = self.drain_detector
ParSaveOriginal(t) ==
    /\ threads[t].pc = "fallback"
    /\ threads' = [threads EXCEPT
                      ![t] = [@ EXCEPT !.original = drain_detector,
                                       !.pc = "swap"]]
    /\ UNCHANGED <<tdv_vars, an_vars, mt_vars, rc_vars>>

\* self.drain_detector = DrainDetector(min_drop=max(2.0, original.min_drop / 2), ...)
ParSwap(t) ==
    /\ threads[t].pc = "swap"
    /\ drain_detector' = relaxed_detector(threads[t].original)
    /\ threads' = [threads EXCEPT ![t] = [@ EXCEPT !.pc = "relaxed"]]
    /\ UNCHANGED <<tdv_vars, mt_vars, rc_vars, segs, historical_data,
                   original, pc, fill_rate, drains, passes, stats>>

\* drains = self.drain_detector.detect_drains(...), second pass
ParDetectRelaxed(t) ==
    /\ threads[t].pc = "relaxed"
    /\ threads' = [threads EXCEPT
                      ![t] = [@ EXCEPT
                                !.drains = detect_drains(
                                               drain_detector,
                                               Readings(threads[t].segs),
                                               ParCauldron(t)),
                                !.pc = "restore"]]
    /\ UNCHANGED <<tdv_vars, an_vars, mt_vars, rc_vars>>

\* finally: self.drain_detector = original
ParRestore(t) ==
    /\ threads[t].pc = "restore"
    /\ drain_detector' = threads[t].original
    /\ threads' = [threads EXCEPT ![t] = [@ EXCEPT !.pc = "volumes"]]
    /\ UNCHANGED <<tdv_vars, mt_vars, rc_vars, segs, historical_data,
                   original, pc, fill_rate, drains, passes, stats>>

\* Steps 3 and 4, and the return
ParVolumes(t) ==
    /\ threads[t].pc = "volumes"
    /\ LET ds == with_true_volumes(threads[t].drains, threads[t].fill_rate)
       IN  threads' = [threads EXCEPT
                          ![t] = [@ EXCEPT
                                    !.drains = ds,
                                    !.stats = Returned(compile_statistics(
                                                  ParCauldron(t),
                                                  threads[t].fill_rate, ds)),
                                    !.pc = "idle"]]
    /\ UNCHANGED <<tdv_vars, an_vars, mt_vars, rc_vars>>

-----------------------------------------------------------------------------
(* Specifications, one per entry point; the other entry points are idle.   *)

AnIdle ==
    /\ segs = <<>>
    /\ historical_data = NoData
    /\ drain_detector = DrainDetector(Units(5, 1), 120, "derivative",
                                      Units(-8, 1))
    /\ original = drain_detector
    /\ pc = "idle"
    /\ fill_rate = IntRat(0)
    /\ drains = <<>>
    /\ passes = <<>>
    /\ stats = NoStats

\* calculate_true_drain_volume on its own
TdvNext == TrueDrainVolumeCall
TdvSpecInit == TdvInit /\ AnIdle /\ MtInit /\ RcInit /\ ParInit
TdvSpec == TdvSpecInit /\ [][TdvNext]_vars

\* analyze_cauldron on one analyzer
AnNext ==
    \/ AppendSegment
    \/ AnalyzeCall
    \/ Validate
    \/ CalcFillRate
    \/ DetectConfigured
    \/ FallbackSwap
    \/ DetectRelaxed
    \/ RestoreDetector
    \/ ComputeVolumes
    \/ AnalyzeReturn
AnSpecInit == TdvInit /\ AnInit /\ MtInit /\ RcInit /\ ParInit
AnSpec == AnSpecInit /\ [][AnNext]_vars

\* match_tickets_to_drains
MtNext == AddTicket \/ AddDrain \/ MatchRun \/ MatchReset
MtSpecInit == TdvInit /\ AnIdle /\ MtInit /\ RcInit /\ ParInit
MtSpec == MtSpecInit /\ [][MtNext]_vars

\* reconcile_from_live
RcNext == AddTicketDto \/ AddDrainDto \/ ReconcileCall \/ ReconcileReset
RcSpecInit == TdvInit /\ AnIdle /\ MtInit /\ RcInit /\ ParInit
RcSpec == RcSpecInit /\ [][RcNext]_vars

\* analyze_cauldron from two threads on one analyzer
ParNext ==
    \E t \in Threads :
        \/ ParCall(t)
        \/ ParDetect(t)
        \/ ParSaveOriginal(t)
        \/ ParSwap(t)
        \/ ParDetectRelaxed(t)
        \/ ParRestore(t)
        \/ ParVolumes(t)
ParSpecInit == TdvInit /\ AnIdle /\ MtInit /\ RcInit /\ ParInit
ParSpec == ParSpecInit /\ [][ParNext]_vars

Init == TdvInit /\ AnInit /\ MtInit /\ RcInit /\ ParInit
Next == TdvNext \/ AnNext \/ MtNext \/ RcNext \/ ParNext
Spec == Init /\ [][Next]_vars

-----------------------------------------------------------------------------
(* Properties                                                              *)

\* C1: calculate_true_drain_volume returns exactly
\* (start_level - end_level) + fill_rate * duration_minutes for every input,
\* with no clamping: under a negative fill_rate and a positive duration the
\* result is smaller than the level drop.
C1_TrueVolumeFormula ==
    tdv_args.called =>
        LET fr == tdv_args.fill_rate
            drop == tdv_args.start_level - tdv_args.end_level
            dur == tdv_args.duration_minutes
        IN  /\ ~IsNaN(tdv_result)
            /\ tdv_result.n * fr.d = tdv_result.d * (drop * fr.d + fr.n * dur)
            /\ (fr.n < 0 /\ dur > 0) => tdv_result.n < drop * tdv_result.d

C1_Witness ==
    /\ tdv_args.called
    /\ tdv_args.fill_rate.n < 0
    /\ tdv_args.duration_minutes > 0
    /\ tdv_args.start_level > tdv_args.end_level

BothColumns == {"timestamp", "level"}

\* C2: every drain event in the result of analyze_cauldron has
\* true_volume >= level_drop, whatever the series and the detector
\* configuration, after the configured pass or the relaxed one.
C2_TrueVolumeCoversDrop ==
    (pc = "done" /\ stats.outcome = "returned") =>
        \A i \in DOMAIN stats.value.drain_events :
            LET e == stats.value.drain_events[i]
            IN  RatGe(e.true_volume, IntRat(e.level_drop))

C2_Witness ==
    /\ pc = "done"
    /\ stats.outcome = "returned"
    /\ Len(passes) = 2
    /\ stats.value.num_drains > 0
    /\ \E i \in DOMAIN stats.value.drain_events :
          RatGt(stats.value.drain_events[i].true_volume,
                IntRat(stats.value.drain_events[i].level_drop))

ReferenceScenario ==
    /\ segs = <<"fill10", "drain10", "fill10">>
    /\ historical_data.columns = BothColumns
    /\ drain_detector = DrainDetector(Units(5, 1), 120, "derivative",
                                      Units(-8, 1))

\* C3: for the reference scenario (0.5 up per minute for 10 minutes, 4.5
\* down per minute for 10 minutes, 0.5 up again) analyze_cauldron reports
\* exactly one drain event with level_drop = 45.0, duration_minutes = 10 and
\* true_volume = 50.0.
C3_ReferenceScenario ==
    (pc = "done" /\ ReferenceScenario) =>
        /\ stats.outcome = "returned"
        /\ stats.value.num_drains = 1
        /\ Len(stats.value.drain_events) = 1
        /\ IntRat(stats.value.drain_events[1].level_drop) = Units(45, 1)
        /\ stats.value.drain_events[1].duration_minutes = 10
        /\ stats.value.drain_events[1].true_volume = Units(50, 1)

IsZeroErrorResult(v) ==
    /\ "error" \in DOMAIN v
    /\ v.fill_rate = IntRat(0)
    /\ v.num_drains = 0
    /\ v.total_volume_drained = IntRat(0)
    /\ v.avg_drain_volume = IntRat(0)
    /\ v.drain_events = <<>>

DegenerateInput ==
    \/ historical_data.is_none
    \/ Len(historical_data.rows) = 0
    \/ "timestamp" \notin historical_data.columns
    \/ "level" \notin historical_data.columns

\* C4: analyze_cauldron never raises to its caller; for a None or empty
\* reading set and for one missing the timestamp or the level column it
\* returns the zero-value result carrying an error description.
C4_AnalyzeFailSoft ==
    (pc = "done") =>
        /\ stats.outcome = "returned"
        /\ DegenerateInput => IsZeroErrorResult(stats.value)

C4_Witness ==
    /\ pc = "done"
    /\ ~historical_data.is_none
    /\ Len(historical_data.rows) > 0
    /\ "level" \notin historical_data.columns
    /\ stats.outcome = "returned"

\* C5: reconcile_from_live, given a ticket whose date is not a valid
\* YYYY-MM-DD value, does not raise to the caller but returns a result.
C5_ReconcileFailSoft ==
    (rec_result # NoStats) => rec_result.outcome = "returned"

\* C6: calculate_fill_rate returns a value >= 0 for every reading series,
\* on each of its paths, and 0.0 for a series of fewer than 2 readings.
C6_FillRateNonNegative ==
    (pc = "detect") =>
        /\ RatGe(fill_rate, IntRat(0))
        /\ Len(historical_data.rows) < 2 => fill_rate = IntRat(0)

BundleIds(m) == Range(m.drain_event_ids)

AllBundleIds(ms) == UNION {BundleIds(ms[i]) : i \in DOMAIN ms}

\* C7: in one run of match_tickets_to_drains no drain event id is in the
\* drain_event_ids of two different MatchResults, and the used set of the run
\* holds the ids claimed in this run and nothing from an earlier invocation.
C7_NoDrainClaimedTwice ==
    (runs > 0) =>
        /\ \A i, j \in DOMAIN matches :
              i # j => BundleIds(matches[i]) \cap BundleIds(matches[j]) = {}
        /\ used = AllBundleIds(matches)

C7_Witness ==
    /\ runs = 2
    /\ \E i, j \in DOMAIN matches :
          /\ i # j
          /\ matches[i].cauldron_id = matches[j].cauldron_id
          /\ matches[i].match_date = matches[j].match_date
          /\ matches[i].drain_event_ids # <<>>
          /\ matches[j].drain_event_ids # <<>>

DistinctDrainIds ==
    \A a, b \in DOMAIN mdrains :
        a # b => mdrains[a].drain_event_id # mdrains[b].drain_event_id

VolumeOfId(id) ==
    LET d == CHOOSE d \in Range(mdrains) : d.drain_event_id = id
    IN  d.drained_volume

RECURSIVE PrefixVolume(_, _)
PrefixVolume(ids, k) ==
    IF k = 0 THEN 0 ELSE VolumeOfId(ids[k]) + PrefixVolume(ids, k - 1)

GreedyExample ==
    /\ Len(tickets) = 1
    /\ tickets[1].amount_collected = 50
    /\ Len(mdrains) = 3
    /\ DistinctDrainIds
    /\ \A i \in 1..3 :
          /\ mdrains[i].drained_volume = 20
          /\ mdrains[i].cauldron_id = tickets[1].cauldron_id
          /\ key_day(mdrains[i].start_ts) = tickets[1].date
    /\ \A i \in 1..2 : mdrains[i].start_ts <= mdrains[i + 1].start_ts

\* C8: a ticket accepts the next unused drain only when that makes the
\* bundle's cumulative volume strictly closer to the claimed amount (a tie
\* is rejected); a ticket claiming 50 with three same-day drains of 20 gets
\* the first two drains, drained_volume = 40 and difference = 10.
C8_StrictlyCloser ==
    (runs > 0 /\ DistinctDrainIds) =>
        /\ \A i \in DOMAIN matches :
              LET m == matches[i]
                  claim == m.drained_volume + m.difference
              IN  \A k \in 1..Len(m.drain_event_ids) :
                     Abs(claim - PrefixVolume(m.drain_event_ids, k))
                         < Abs(claim - PrefixVolume(m.drain_event_ids, k - 1))
        /\ GreedyExample =>
              /\ matches[1].drain_event_ids
                    = <<mdrains[1].drain_event_id, mdrains[2].drain_event_id>>
              /\ matches[1].drained_volume = 40
              /\ matches[1].difference = 10

\* the drains of match k's group that no earlier ticket has claimed
AvailableDrains(k) ==
    {d \in Range(mdrains) :
        /\ d.cauldron_id = matches[k].cauldron_id
        /\ key_day(d.start_ts) = matches[k].match_date
        /\ d.drain_event_id \notin AllBundleIds(SubSeq(matches, 1, k - 1))}

\* C9: a ticket whose (vessel, day) group has no available drain gets status
\* "unmatched", no drain ids and drained_volume 0; a MatchResult has status
\* "unmatched" exactly when its drain_event_ids is empty.
C9_UnmatchedIffEmpty ==
    (runs > 0) =>
        \A k \in DOMAIN matches :
            /\ matches[k].status = "unmatched"
                  <=> matches[k].drain_event_ids = <<>>
            /\ matches[k].drain_event_ids = <<>>
                  => matches[k].drained_volume = 0
            /\ AvailableDrains(k) = {}
                  => /\ matches[k].status = "unmatched"
                     /\ matches[k].drain_event_ids = <<>>
                     /\ matches[k].drained_volume = 0

C9_Witness ==
    /\ runs > 0
    /\ \E k \in DOMAIN matches :
          /\ matches[k].status = "unmatched"
          /\ AvailableDrains(k) = {}
    /\ \E k \in DOMAIN matches :
          /\ matches[k].status # "unmatched"
          /\ matches[k].drain_event_ids # <<>>

TimesInBundle(id, m) ==
    Cardinality({k \in DOMAIN m.drain_event_ids : m.drain_event_ids[k] = id})

RECURSIVE TimesClaimed(_, _)
TimesClaimed(id, k) ==
    IF k = 0 THEN 0
    ELSE TimesInBundle(id, matches[k]) + TimesClaimed(id, k - 1)

TimesUnmatched(d) ==
    Cardinality({k \in DOMAIN unmatched_drains : unmatched_drains[k] = d})

\* C10: given drains with distinct ids, every input drain is in the bundle
\* of exactly one MatchResult or in unmatched_drains, never in both and
\* never in neither, and nothing else is in either.
C10_DrainsPartitioned ==
    (runs > 0 /\ DistinctDrainIds) =>
        /\ \A i \in DOMAIN mdrains :
              TimesClaimed(mdrains[i].drain_event_id, Len(matches))
                  + TimesUnmatched(mdrains[i]) = 1
        /\ Range(unmatched_drains) \subseteq Range(mdrains)
        /\ AllBundleIds(matches)
              \subseteq {mdrains[i].drain_event_id : i \in DOMAIN mdrains}

C10_Witness ==
    /\ runs > 0
    /\ DistinctDrainIds
    /\ unmatched_drains # <<>>
    /\ \E k \in DOMAIN matches : Len(matches[k].drain_event_ids) = 2

RcReturned == rec_result # NoStats /\ rec_result.outcome = "returned"

Severities == {"info", "warning", "critical"}

\* C11: a returned reconciliation holds exactly one Discrepancy per input
\* ticket (the ticket ids of the result are those of the input, each once),
\* every severity is info, warning or critical, and critical_count +
\* warning_count + info_count = total_discrepancies = number of tickets.
C11_OneDiscrepancyPerTicket ==
    RcReturned =>
        LET r == rec_result.value
        IN  /\ Len(r.discrepancies) = Len(ticket_dtos)
            /\ \A i \in DOMAIN ticket_dtos :
                  Cardinality({k \in DOMAIN r.discrepancies :
                                  r.discrepancies[k].ticket_id
                                      = ticket_dtos[i].ticket_id}) = 1
            /\ \A k \in DOMAIN r.discrepancies :
                  r.discrepancies[k].severity \in Severities
            /\ r.total_discrepancies = Len(ticket_dtos)
            /\ r.critical_count + r.warning_count + r.info_count
                  = r.total_discrepancies

C11_Witness ==
    /\ RcReturned
    /\ Len(ticket_dtos) = 2
    /\ rec_result.value.critical_count = 2

\* the tolerance rule, written out in hundredths from the text of the rule
WithinTolerance(diff, basis) ==
    \/ Abs(diff) <= 12
    \/ Abs(diff) * 100 <= 20 * basis

WithinWarning(diff, basis) == Abs(diff) * 100 <= 30 * basis

BasisOf(d) ==
    IF d.ticket_volume >= d.actual_drained /\ d.ticket_volume >= 1
    THEN d.ticket_volume
    ELSE IF d.actual_drained >= 1 THEN d.actual_drained ELSE 1

\* C13: for every ticket with a non-empty bundle, with basis =
\* max(ticket_volume, drained_volume, 1.0), severity is info iff
\* |difference| <= max(TOL_ABS, TOL_PCT * basis), otherwise warning iff
\* |difference| / basis <= WARN_PCT, and critical otherwise; with basis 100
\* the differences 15, 25 and 40 are info, warning and critical.
C13_SeverityTiers ==
    RcReturned =>
        \A k \in DOMAIN rec_result.value.discrepancies :
            LET d == rec_result.value.discrepancies[k]
                basis == BasisOf(d)
            IN  d.matched_drain_events # <<>> =>
                  /\ d.severity = "info" <=> WithinTolerance(d.discrepancy, basis)
                  /\ d.severity = "warning" <=>
                        /\ ~WithinTolerance(d.discrepancy, basis)
                        /\ WithinWarning(d.discrepancy, basis)
                  /\ d.severity = "critical" <=>
                        /\ ~WithinTolerance(d.discrepancy, basis)
                        /\ ~WithinWarning(d.discrepancy, basis)
                  /\ (basis = 100 /\ Abs(d.discrepancy) = 15)
                        => d.severity = "info"
                  /\ (basis = 100 /\ Abs(d.discrepancy) = 25)
                        => d.severity = "warning"
                  /\ (basis = 100 /\ Abs(d.discrepancy) = 40)
                        => d.severity = "critical"

HasTier(sev, absdiff) ==
    \E k \in DOMAIN rec_result.value.discrepancies :
        LET d == rec_result.value.discrepancies[k]
        IN  /\ d.matched_drain_events # <<>>
            /\ BasisOf(d) = 100
            /\ Abs(d.discrepancy) = absdiff
            /\ d.severity = sev

C13_Witness ==
    /\ RcReturned
    /\ HasTier("warning", 25)

C13_WitnessCritical ==
    /\ RcReturned
    /\ HasTier("critical", 40)

C13_WitnessInfo ==
    /\ RcReturned
    /\ HasTier("info", 15)

\* C14, as claimed: a ticket whose match is "unmatched" is a category of
\* its own, so its severity is none of the tiers the numeric rule yields.
C14_UnmatchedOwnCategory ==
    RcReturned =>
        \A k \in DOMAIN rec_result.value.discrepancies :
            LET d == rec_result.value.discrepancies[k]
            IN  d.matched_drain_events = <<>> => d.severity \notin Severities

\* C14, amended: a ticket with no matched drain goes through the same
\* numeric rule with a drained volume of 0, so its difference and its basis
\* are the ticket volume: info when ticket_volume <= TOL_ABS, critical
\* otherwise.
C14_UnmatchedByNumericRule ==
    RcReturned =>
        \A k \in DOMAIN rec_result.value.discrepancies :
            LET d == rec_result.value.discrepancies[k]
            IN  d.matched_drain_events = <<>> =>
                  /\ d.actual_drained = 0
                  /\ d.discrepancy = d.ticket_volume
                  /\ d.severity = IF d.ticket_volume <= 12 THEN "info"
                                  ELSE "critical"

C14_Witness ==
    /\ RcReturned
    /\ \E k \in DOMAIN rec_result.value.discrepancies :
          LET d == rec_result.value.discrepancies[k]
          IN  d.matched_drain_events = <<>> /\ d.severity = "info"
    /\ \E k \in DOMAIN rec_result.value.discrepancies :
          LET d == rec_result.value.discrepancies[k]
          IN  d.matched_drain_events = <<>> /\ d.severity = "critical"

\* the volumes of the input drains at the positions f picks
RECURSIVE SumPicked(_, _)
SumPicked(f, n) ==
    IF n = 0 THEN 0 ELSE mdrains[f[n]].drained_volume + SumPicked(f, n - 1)

\* C12: every MatchResult's drained_volume is the sum of the volumes of the
\* drains listed in its drain_event_ids (the ids, in order, are those of
\* distinct input drains whose volumes add up to it), and its difference is
\* its ticket's amount_collected minus drained_volume.
C12_VolumeAndDifference ==
    runs > 0 =>
        \A k \in DOMAIN matches :
            LET m == matches[k]
                n == Len(m.drain_event_ids)
            IN  /\ \E f \in [1..n -> DOMAIN mdrains] :
                      /\ \A a, b \in 1..n : a # b => f[a] # f[b]
                      /\ \A a \in 1..n :
                            mdrains[f[a]].drain_event_id = m.drain_event_ids[a]
                      /\ SumPicked(f, n) = m.drained_volume
                /\ \E t \in DOMAIN tickets :
                      /\ tickets[t].ticket_id = m.ticket_id
                      /\ tickets[t].cauldron_id = m.cauldron_id
                      /\ tickets[t].date = m.match_date
                      /\ m.difference
                            = tickets[t].amount_collected - m.drained_volume

C12_Witness ==
    /\ runs > 0
    /\ \E k \in DOMAIN matches :
          /\ Len(matches[k].drain_event_ids) = 2
          /\ matches[k].difference > 0

MatchStatuses == {"valid", "suspicious_over", "suspicious_under", "unmatched"}

\* C15: the status of every MatchResult is valid, suspicious_over,
\* suspicious_under or unmatched; with a non-empty bundle it is valid iff
\* |difference| <= max(TOL_ABS, TOL_PCT * max(drained_volume, 1.0)),
\* otherwise suspicious_over when difference > 0 and suspicious_under when
\* difference < 0.
C15_StatusRule ==
    runs > 0 =>
        \A k \in DOMAIN matches :
            LET m == matches[k]
                base == IF m.drained_volume >= 1 THEN m.drained_volume ELSE 1
                ok == \/ Abs(m.difference) <= 12
                      \/ Abs(m.difference) * 100 <= 20 * base
            IN  /\ m.status \in MatchStatuses
                /\ m.drain_event_ids # <<>> =>
                      /\ m.status = "valid" <=> ok
                      /\ (~ok /\ m.difference > 0)
                            => m.status = "suspicious_over"
                      /\ (~ok /\ m.difference < 0)
                            => m.status = "suspicious_under"

C15_Witness ==
    /\ runs > 0
    /\ \E k \in DOMAIN matches : matches[k].status = "suspicious_over"
    /\ \E k \in DOMAIN matches : matches[k].status = "suspicious_under"

Perms(n) == {p \in [1..n -> 1..n] : \A a, b \in 1..n : a # b => p[a] # p[b]}
Permute(xs, p) == [i \in 1..Len(xs) |-> xs[p[i]]]

DistinctTicketIds ==
    \A a, b \in DOMAIN tickets :
        a # b => tickets[a].ticket_id # tickets[b].ticket_id

DistinctDrainStarts ==
    \A a, b \in DOMAIN mdrains :
        a # b => \/ mdrains[a].cauldron_id # mdrains[b].cauldron_id
                 \/ mdrains[a].start_ts # mdrains[b].start_ts

MatchKeyLt(a, b) ==
    \/ a.cauldron_id < b.cauldron_id
    \/ a.cauldron_id = b.cauldron_id /\ a.match_date < b.match_date
    \/ a.cauldron_id = b.cauldron_id /\ a.match_date = b.match_date
       /\ a.ticket_id < b.ticket_id

\* C16: given distinct ticket ids and drains with distinct (vessel, start
\* time), the matches come in ascending (vessel, date, ticket_id) order, and
\* the matches list is the same for every ordering of the input ticket list
\* and of the input drain list, and the same on a further run.
C16_OrderIndependent ==
    (runs > 0 /\ DistinctTicketIds /\ DistinctDrainStarts) =>
        /\ \A k \in 1..(Len(matches) - 1) :
              MatchKeyLt(matches[k], matches[k + 1])
        /\ \A p \in Perms(Len(tickets)), q \in Perms(Len(mdrains)) :
              match_tickets_to_drains(Permute(tickets, p),
                                      Permute(mdrains, q), {}).matches
                  = matches
        /\ match_tickets_to_drains(tickets, mdrains, used).matches = matches

C16_Witness ==
    /\ runs = 2
    /\ DistinctTicketIds
    /\ DistinctDrainStarts
    /\ Len(tickets) = 2 /\ Len(mdrains) = 2
    /\ tickets[1].cauldron_id = tickets[2].cauldron_id
    /\ tickets[1].date = tickets[2].date
    /\ tickets[1].ticket_id > tickets[2].ticket_id
    /\ mdrains[1].cauldron_id = mdrains[2].cauldron_id
    /\ mdrains[1].start_ts > mdrains[2].start_ts
    /\ mdrains[1].drained_volume # mdrains[2].drained_volume
    /\ \E k \in DOMAIN matches : matches[k].drain_event_ids # <<>>

\* the frame a detect_drains call works on, and the call's detector
DetectFrame == DropDuplicateTimestamps(SortByTimestamp(historical_data.rows))
AfterDetect == pc \in {"fallback", "restore", "volumes"}
LastDetector == passes[Len(passes)].detector

\* C19: two drain events returned by one detect_drains call have different
\* start times, so the ids {vessel_id}@{start_time} are unique; in
\* derivative mode the earlier event also ends before the later one starts.
C19_DistinctStartTimes ==
    AfterDetect =>
        \A i, j \in DOMAIN drains :
            i < j =>
                /\ drains[i].start_time # drains[j].start_time
                /\ <<drains[i].cauldron_id, drains[i].start_time>>
                      # <<drains[j].cauldron_id, drains[j].start_time>>
                /\ LastDetector.detection_method = "derivative"
                      => /\ drains[i].start_time < drains[i].end_time
                         /\ drains[i].end_time < drains[j].start_time

C19_Witness ==
    /\ AfterDetect
    /\ Len(drains) >= 2
    /\ LastDetector.detection_method = "derivative"

C19_WitnessThreshold ==
    /\ AfterDetect
    /\ Len(drains) >= 2
    /\ LastDetector.detection_method = "threshold"

\* rows whose rate is below the detector's threshold, and the candidate
\* runs: the maximal stretches of such rows
IsDrainingRow(df, i, self) == RatLt(RowRate(df, i), self.drain_threshold)

CandidateRuns(df, self) ==
    {r \in (1..Len(df)) \X (1..Len(df)) :
        /\ r[1] <= r[2]
        /\ \A i \in r[1]..r[2] : IsDrainingRow(df, i, self)
        /\ r[1] = 1 \/ ~IsDrainingRow(df, r[1] - 1, self)
        /\ r[2] = Len(df) \/ ~IsDrainingRow(df, r[2] + 1, self)}

RunIsValid(df, r, self) ==
    /\ ~df[r[1]].isna /\ ~df[r[2]].isna
    /\ (df[r[1]].level - df[r[2]].level) * self.min_drop.d >= self.min_drop.n
    /\ df[r[2]].timestamp - df[r[1]].timestamp > 0
    /\ df[r[2]].timestamp - df[r[1]].timestamp <= self.max_duration_minutes

\* C20: every interval a derivative-mode detect_drains call returns has
\* level_drop >= min_drop and 0 < duration_minutes <= max_duration_minutes,
\* and every candidate run with both properties is returned.
C20_ValidatedIntervals ==
    (AfterDetect /\ LastDetector.detection_method = "derivative") =>
        LET self == LastDetector
            df == DetectFrame
        IN  /\ \A i \in DOMAIN drains :
                  /\ drains[i].level_drop * self.min_drop.d >= self.min_drop.n
                  /\ drains[i].duration_minutes > 0
                  /\ drains[i].duration_minutes <= self.max_duration_minutes
            /\ \A r \in CandidateRuns(df, self) :
                  RunIsValid(df, r, self) =>
                      \E i \in DOMAIN drains :
                          /\ drains[i].start_time = df[r[1]].timestamp
                          /\ drains[i].end_time = df[r[2]].timestamp
                          /\ drains[i].start_level = df[r[1]].level
                          /\ drains[i].end_level = df[r[2]].level

C20_Witness ==
    /\ AfterDetect
    /\ LastDetector.detection_method = "derivative"
    /\ Len(drains) >= 1
    /\ \E r \in CandidateRuns(DetectFrame, LastDetector) :
          ~RunIsValid(DetectFrame, r, LastDetector)
    /\ \E i \in DOMAIN drains :
          drains[i].level_drop * LastDetector.min_drop.d
              = LastDetector.min_drop.n

\* the frame has every level, and exactly one maximal stretch of falling
\* readings, from row a (the last reading before the fall) to row b
HasLevels(df) == \A i \in DOMAIN df : ~df[i].isna

Falls(df, i) == i > 1 /\ df[i].level < df[i - 1].level

DrainingRuns(df) ==
    {r \in (1..Len(df)) \X (1..Len(df)) :
        /\ r[1] < r[2]
        /\ \A i \in (r[1] + 1)..r[2] : Falls(df, i)
        /\ ~Falls(df, r[1])
        /\ r[2] = Len(df) \/ ~Falls(df, r[2] + 1)}

RunDrop(df, r) == df[r[1]].level - df[r[2]].level

\* C18: when the series holds one draining run whose level drop d has
\* min_drop/2 < d < min_drop for the configured detector, the configured
\* pass returns no interval and the relaxed fallback pass returns exactly
\* one.
C18_FallbackFindsOne ==
    (/\ pc = "done"
     /\ stats.outcome = "returned"
     /\ BothColumns \subseteq historical_data.columns
     /\ Len(historical_data.rows) > 0
     /\ HasLevels(DetectFrame)
     /\ Cardinality(DrainingRuns(DetectFrame)) = 1
     /\ \A r \in DrainingRuns(DetectFrame) :
           /\ 2 * RunDrop(DetectFrame, r) * original.min_drop.d
                 > original.min_drop.n
           /\ RunDrop(DetectFrame, r) * original.min_drop.d
                 < original.min_drop.n)
    => /\ Len(passes) = 2
       /\ passes[1].found = 0
       /\ passes[2].found = 1

\* analyze_cauldron run on its own by an analyzer with detector self
analyze_alone(self, rows, cauldron_id) ==
    LET fr == calculate_fill_rate(rows)
        strict == detect_drains(self, rows, cauldron_id)
        found == IF strict = <<>>
                 THEN detect_drains(relaxed_detector(self), rows, cauldron_id)
                 ELSE strict
    IN  Returned(compile_statistics(cauldron_id, fr,
                                    with_true_volumes(found, fr)))

\* C17: when analyze_cauldron calls for different vessels interleave on one
\* shared CauldronAnalyzer, each call returns the result it returns when it
\* runs alone.
C17_ParallelAcrossVessels ==
    \A t \in Threads :
        threads[t].stats # NoStats =>
            threads[t].stats = analyze_alone(DefaultDetector,
                                             Readings(threads[t].segs),
                                             ParCauldron(t))

\* the event a detect_drains call returned for the rows a to b of its frame
IsEventOf(e, df, a, b) ==
    /\ e.start_time = df[a].timestamp
    /\ e.end_time = df[b].timestamp
    /\ e.start_level = df[a].level
    /\ e.end_level = df[b].level

C30_SingleSampleRunDropped ==
    (AfterDetect /\ LastDetector.detection_method = "derivative") =>
        LET self == LastDetector
            df == DetectFrame
        IN  /\ \A r \in CandidateRuns(df, self) :
                  r[1] = r[2] =>
                      \A i \in DOMAIN drains :
                          /\ drains[i].start_time # df[r[1]].timestamp
                          /\ drains[i].end_time # df[r[1]].timestamp
            /\ \A i \in DOMAIN drains :
                  Cardinality({a \in DOMAIN df :
                                  /\ IsDrainingRow(df, a, self)
                                  /\ drains[i].start_time <= df[a].timestamp
                                  /\ df[a].timestamp <= drains[i].end_time})
                      >= 2

\* a single-sample drop of 12 units next to a reported interval, in the
\* relaxed pass
C30_Witness ==
    /\ pc = "restore"
    /\ Len(drains) >= 1
    /\ \E r \in CandidateRuns(DetectFrame, LastDetector) :
          /\ r[1] = r[2]
          /\ ~DetectFrame[r[1]].isna /\ ~DetectFrame[r[1] - 1].isna
          /\ DetectFrame[r[1] - 1].level - DetectFrame[r[1]].level
                >= 12 * LevelScale

\* the detection passes of the current call are over
PassesOver == pc \in {"volumes", "done"} /\ passes # <<>>

\* the relaxed parameters in the words of the fallback rule
RelaxedOf(self) ==
    LET half == RatDiv(self.min_drop, IntRat(2))
    IN  [min_drop |-> IF RatLt(half, Units(2, 1)) THEN Units(2, 1) ELSE half,
         max_duration_minutes |-> IF self.max_duration_minutes < 180
                                  THEN 180 ELSE self.max_duration_minutes,
         detection_method |-> "derivative",
         drain_threshold |-> Units(-3, 10)]

SameParameters(self, p) ==
    /\ self.min_drop = p.min_drop
    /\ self.max_duration_minutes = p.max_duration_minutes
    /\ self.detection_method = p.detection_method
    /\ self.drain_threshold = p.drain_threshold

\* C22: the relaxed pass runs only after the configured pass returned no
\* interval, and at most once; it uses min_drop = max(2.0, min_drop / 2),
\* max_duration_minutes = max(180, max_duration_minutes), threshold -0.3 and
\* the derivative method, and its results are the ones reported.  When the
\* configured pass returns at least one interval, exactly its results are
\* reported.
C22_RelaxedPassOnce ==
    PassesOver =>
        LET rows == historical_data.rows
            cid == historical_data.cauldron_id
            strict == passes[1].detector
            first == detect_drains(strict, rows, cid)
            reported == IF pc = "done" THEN stats.value.drain_events
                        ELSE with_true_volumes(drains, fill_rate)
        IN  /\ Len(passes) \in {1, 2}
            /\ strict = drain_detector
            /\ passes[1].found = Len(first)
            /\ (Len(passes) = 2) <=> (first = <<>>)
            /\ Len(passes) = 2 =>
                  /\ SameParameters(passes[2].detector, RelaxedOf(strict))
                  /\ reported = with_true_volumes(
                        detect_drains(passes[2].detector, rows, cid),
                        fill_rate)
            /\ Len(passes) = 1 =>
                  reported = with_true_volumes(first, fill_rate)

\* a relaxed pass that used both floors and found an interval
C22_Witness ==
    /\ pc = "done"
    /\ Len(passes) = 2
    /\ passes[1].detector.min_drop = Units(3, 1)
    /\ passes[2].detector.min_drop = Units(2, 1)
    /\ passes[2].found >= 1
    /\ stats.value.num_drains >= 1

C22_WitnessFloorDuration ==
    /\ pc = "done"
    /\ Len(passes) = 2
    /\ passes[1].detector.max_duration_minutes = 30
    /\ passes[2].detector.max_duration_minutes = 180
    /\ passes[2].found >= 1

C22_WitnessStrict ==
    /\ pc = "done"
    /\ Len(passes) = 1
    /\ passes[1].found >= 1

\* C23: when analyze_cauldron has returned, on the normal path, the fallback
\* path or an error path, the analyzer's drain_detector is the configured
\* detector it had before the call; so every call of a sequence returns what
\* a fresh analyzer with that configuration returns.
C23_DetectorRestored ==
    pc \in {"idle", "done"} =>
        /\ drain_detector \in AnalyzerConfigs
        /\ passes # <<>> => drain_detector = passes[1].detector
        /\ (pc = "done" /\ passes # <<>>) =>
              stats = analyze_alone(drain_detector, historical_data.rows,
                                    historical_data.cauldron_id)

C23_Witness ==
    /\ pc = "done"
    /\ Len(passes) = 2
    /\ passes[2].detector # passes[1].detector
    /\ drain_detector = passes[1].detector
    /\ stats.outcome = "returned"

C23_WitnessErrorPath ==
    /\ pc = "done"
    /\ passes = <<>>
    /\ stats.outcome = "returned"
    /\ stats.value.num_drains = 0
    /\ drain_detector \in AnalyzerConfigs

\* the fill rate of the current call has been computed
AfterFillRate ==
    pc \in {"detect", "fallback", "relaxed", "restore", "volumes"}

\* C27: calculate_fill_rate drops readings with a repeated timestamp before
\* it computes rates: its result is its result on the series with those
\* readings removed.
C27_FillRateDropsDuplicates ==
    AfterFillRate =>
        fill_rate = calculate_fill_rate(
                        DropDuplicateTimestamps(
                            SortByTimestamp(historical_data.rows)))

\* C28: in threshold mode the scan skips ahead after it emits an interval,
\* so no two intervals of one call overlap in time.
C28_ThresholdIntervalsDisjoint ==
    (AfterDetect /\ LastDetector.detection_method = "threshold") =>
        \A i, j \in DOMAIN drains :
            i < j => drains[i].end_time <= drains[j].start_time

\* the ticket whose result is matches[k]
TicketOf(k) == SortTickets(tickets)[k]

\* C24: every drain in a ticket's bundle has the ticket's vessel id and a
\* start date equal to the ticket's date; a drain that starts on day D and
\* ends on day D + 1 is only ever matched to tickets dated D.
C24_SameVesselAndStartDay ==
    (runs > 0) =>
        /\ \A k \in DOMAIN matches :
              /\ matches[k].cauldron_id = TicketOf(k).cauldron_id
              /\ matches[k].match_date = TicketOf(k).date
              /\ \A id \in BundleIds(matches[k]) :
                    \E d \in Range(mdrains) :
                        /\ d.drain_event_id = id
                        /\ d.cauldron_id = TicketOf(k).cauldron_id
                        /\ key_day(d.start_ts) = TicketOf(k).date
        /\ DistinctDrainIds =>
              \A d \in Range(mdrains), k \in DOMAIN matches :
                  (/\ key_day(d.end_ts) = key_day(d.start_ts) + 1
                   /\ d.drain_event_id \in BundleIds(matches[k]))
                      => TicketOf(k).date = key_day(d.start_ts)

\* a drain that crosses midnight is claimed by the ticket of its start day
\* while the same vessel's ticket of the next day stays unmatched
C24_Witness ==
    /\ runs > 0
    /\ DistinctDrainIds
    /\ \E d \in Range(mdrains), k, u \in DOMAIN matches :
          /\ key_day(d.end_ts) = key_day(d.start_ts) + 1
          /\ d.drain_event_id \in BundleIds(matches[k])
          /\ TicketOf(k).date = key_day(d.start_ts)
          /\ TicketOf(u).cauldron_id = d.cauldron_id
          /\ TicketOf(u).date = key_day(d.end_ts)
          /\ matches[u].status = "unmatched"

\* C25: in every MatchResult with two or more drains, the cumulative volume
\* of every proper prefix of the bundle is below the ticket's
\* amount_collected: a ticket takes no further drain once its claim is met.
C25_StopsWhenClaimMet ==
    (runs > 0 /\ DistinctDrainIds) =>
        \A k \in DOMAIN matches :
            LET ids == matches[k].drain_event_ids
            IN  Len(ids) >= 2 =>
                   \A n \in 1..(Len(ids) - 1) :
                       PrefixVolume(ids, n) < TicketOf(k).amount_collected

\* a bundle of two drains that meets the claim, with an empty drain of the
\* same vessel and day left over
C25_Witness ==
    /\ runs > 0
    /\ DistinctDrainIds
    /\ \E k \in DOMAIN matches :
          /\ Len(matches[k].drain_event_ids) >= 2
          /\ matches[k].drained_volume >= TicketOf(k).amount_collected
          /\ \E d \in Range(unmatched_drains) :
                /\ d.cauldron_id = TicketOf(k).cauldron_id
                /\ key_day(d.start_ts) = TicketOf(k).date
                /\ d.drained_volume = 0

\* the drains of matches[k]'s vessel and day, in start order
GroupDrains(k) ==
    LET sorted == SortDrains(mdrains)
    IN  SelectSeq(sorted,
                  LAMBDA d : /\ d.cauldron_id = TicketOf(k).cauldron_id
                             /\ key_day(d.start_ts) = TicketOf(k).date)

SameGroup(i, k) ==
    /\ TicketOf(i).cauldron_id = TicketOf(k).cauldron_id
    /\ TicketOf(i).date = TicketOf(k).date

\* the bundles of the tickets 1..n that are in matches[k]'s group, in ticket
\* order
RECURSIVE BundlesBefore(_, _)
BundlesBefore(k, n) ==
    IF n = 0 THEN <<>>
    ELSE BundlesBefore(k, n - 1)
            \o (IF SameGroup(n, k) THEN matches[n].drain_event_ids ELSE <<>>)

IsPrefixOf(a, b) == Len(a) <= Len(b) /\ a = SubSeq(b, 1, Len(a))

GroupIds(k) == [i \in DOMAIN GroupDrains(k) |-> GroupDrains(k)[i].drain_event_id]

C29_WitnessTwoTickets ==
    /\ runs > 0
    /\ DistinctDrainIds
    /\ \E i, k \in DOMAIN matches :
          /\ i < k
          /\ SameGroup(i, k)
          /\ matches[i].drain_event_ids # <<>>
          /\ matches[k].drain_event_ids # <<>>
          /\ IsPrefixOf(matches[i].drain_event_ids \o matches[k].drain_event_ids,
                        GroupIds(k))

\* the MatchResults behind the returned discrepancies: the matcher on the
\* converted tickets and drains of the call
RcMatches ==
    LET m_tickets == [i \in DOMAIN ticket_dtos |->
                         [ticket_id |-> ticket_dtos[i].ticket_id,
                          cauldron_id |-> ticket_dtos[i].cauldron_id,
                          date |-> to_date(ticket_dtos[i].date).date,
                          amount_collected |-> ticket_dtos[i].amount_collected]]
        m_drains == [i \in DOMAIN drain_dtos |->
                        [drain_event_id |-> mk_drain_id(drain_dtos[i]),
                         cauldron_id |-> drain_dtos[i].cauldron_id,
                         start_ts |-> drain_dtos[i].start_time,
                         drained_volume |-> drain_volume(drain_dtos[i])]]
    IN  match_tickets_to_drains(m_tickets, m_drains, {}).matches

\* C26: for every ticket with a non-empty bundle, the Discrepancy severity
\* is info exactly when the MatchResult status is valid.
C26_InfoIffValid ==
    RcReturned =>
        \A k \in DOMAIN rec_result.value.discrepancies :
            LET d == rec_result.value.discrepancies[k]
            IN  d.matched_drain_events # <<>> =>
                   (d.severity = "info" <=> RcMatches[k].status = "valid")

\* C26 as the code has it: with a non-empty bundle a valid status always
\* gives info, and info is also given to a suspicious_over ticket whose
\* difference is within TOL_PCT of the ticket volume (the severity tolerance
\* is taken on max(ticket_volume, drained_volume), the status tolerance on
\* drained_volume); a suspicious_under ticket is never info.
C26_InfoCoversValid ==
    RcReturned =>
        \A k \in DOMAIN rec_result.value.discrepancies :
            LET d == rec_result.value.discrepancies[k]
                status == RcMatches[k].status
            IN  d.matched_drain_events # <<>> =>
                   /\ RcMatches[k].ticket_id = d.ticket_id
                   /\ status = "valid" => d.severity = "info"
                   /\ status = "suspicious_under" => d.severity # "info"
                   /\ d.severity = "info" <=>
                         \/ status = "valid"
                         \/ /\ status = "suspicious_over"
                            /\ Abs(d.discrepancy) * 100 <= 20 * d.ticket_volume

\* a ticket of 125 against a drain of 100: suspicious_over, reported as info
C26_Witness ==
    /\ RcReturned
    /\ \E k \in DOMAIN rec_result.value.discrepancies :
          LET d == rec_result.value.discrepancies[k]
          IN  /\ d.matched_drain_events # <<>>
              /\ RcMatches[k].status = "suspicious_over"
              /\ d.severity = "info"
              /\ d.ticket_volume = 125
              /\ d.actual_drained = 100

C26_WitnessValid ==
    /\ RcReturned
    /\ \E k \in DOMAIN rec_result.value.discrepancies :
          LET d == rec_result.value.discrepancies[k]
          IN  /\ d.matched_drain_events # <<>>
              /\ RcMatches[k].status = "valid"
              /\ d.severity = "info"
              /\ d.discrepancy # 0

====
